---- MODULE Spec2Model ----
(***************************************************************************)
(* Route construction of inference_motor.ipynb: Traveler._high_value_      *)
(* strategy (greedy, fee-ordered, validator-gated, at most 8 stops), the   *)
(* multi-day driver loop that calls it once per starting point, and the    *)
(* flattening of the per-day routes into output rows.                      *)
(*                                                                         *)
(* Python lists are objects: `lists` is the heap of the lists that can be  *)
(* aliased (the index's per-jurisdiction lists, the default [] of          *)
(* dict.get, and the list the comprehension allocates), addressed by       *)
(* reference.  is_valid_route lives in tax_inspector_competition and is    *)
(* modelled as an arbitrary pure predicate: its answer to a query is       *)
(* chosen freely the first time and repeated ever after.                   *)
(***************************************************************************)
EXTENDS Integers, Sequences, FiniteSets, TLC

\* ------------------------------------------------------------ bounds
\* POIs in a small dataset
MaxPois == 3
\* starting points (days) of a run
MaxDays == 2
\* fee values range over 0..MaxFee-1, fee patterns over 0..MaxFee
MaxFee == 2
\* candidates beyond the cap in the large datasets
Overflow == 1

\* ------------------------------------------------------------ program constants
\* len(test_route) <= 8
MaxStops == 8
\* synthetic ids of starting points start here (POI(id=9000, ...))
SyntheticIdBase == 9000

\* ------------------------------------------------------------ data
\* jurisdiction tags are strings, kept as character sequences because the
\* flattening formats them into route_id
J5 == <<"J", "5">>
J6 == <<"J", "6">>
\* a tag no POI of the dataset carries
J9 == <<"J", "9">>

\* POI(id, ..., fee_value, jurisdiction); lat, lon and poi_type are carried
\* along by the program but no branch reads them
POI(id, fee, tag) == [id |-> id, fee_value |-> fee, jurisdiction |-> tag]

\* the ids of a list of POIs, in order
Ids(route) == [k \in 1..Len(route) |-> route[k].id]

\* references of the heap `lists`
DefaultRef == <<"default">>
AvailableRef == <<"available">>
KeyError == <<"KeyError">>

\* CompetitionSimulator(dataset_path).optimizer.jurisdictions:
\* tag -> the POIs carrying it, in dataset order; only tags that occur
BuildIndex(ds) ==
  LET tags == {ds[k].jurisdiction : k \in 1..Len(ds)}
  IN  [r \in tags \cup {DefaultRef, AvailableRef} |->
         IF r \in tags THEN SelectSeq(ds, LAMBDA poi : poi.jurisdiction = r)
         ELSE <<>>]

\* the tags the index has a key for
IndexTags(h) == DOMAIN h \ {DefaultRef, AvailableRef}

VARIABLES
  dataset,          \* the POI table the Traveler was constructed from
  lists,            \* heap: reference -> list of POI
  starting_points,  \* the list the driver loops over
  pc,               \* "for_ele" | "for_poi" | "done" | "raised"
  ele_idx,          \* position of the driver loop in starting_points
  paths,            \* one route per completed day
  starting_point,   \* argument of the running call
  available_pois,   \* reference of the list the call iterates
  poi_idx,          \* position of the call's loop in available_pois
  selected_pois,    \* the accepted list
  valid_routes,     \* validator queries answered True so far
  invalid_routes,   \* validator queries answered False so far
  submitted,        \* what the last step handed to the validator, or <<>>
  turns,            \* history of the running call: one entry per candidate
  uncapped_pois,    \* what the call would have accepted without the cap
  flat_data,        \* output rows
  phase,            \* "multi" | "alone"
  multi_paths,      \* the paths of the multi-day run, kept for comparison
  alone_day         \* the day re-run alone, or 0

vars == <<dataset, lists, starting_points, pc, ele_idx, paths, starting_point,
          available_pois, poi_idx, selected_pois, valid_routes, invalid_routes,
          submitted, turns, uncapped_pois, flat_data, phase, multi_paths,
          alone_day>>

\* ------------------------------------------------------------ pure steps of _high_value_strategy

\* faulty variant: jurisdictions[tag], which raises KeyError on a tag the
\* index lacks
JurisdictionsSubscript(h, tag) ==
  IF tag \in IndexTags(h) THEN tag ELSE KeyError

\* faulty variant: the lookup is made with another tag than the starting
\* point's
JurisdictionsAnyTag(h, tag) ==
  IF IndexTags(h) = {} THEN DefaultRef
  ELSE CHOOSE t \in IndexTags(h) : t # tag \/ IndexTags(h) = {tag}

\* jurisdictions.get(starting_point.jurisdiction, []): the reference of the
\* index's own list, or of a new empty list
JurisdictionsGet(h, tag) ==
  IF tag \in IndexTags(h) THEN tag ELSE DefaultRef

\* faulty variant: a candidate pool shared across days, POIs already in
\* paths are dropped
AvailablePoisShared(jurisdiction_pois, sp) ==
  SelectSeq(jurisdiction_pois,
            LAMBDA poi : /\ poi.id # sp.id
                         /\ \A d \in 1..Len(paths) :
                              \A k \in 1..Len(paths[d]) : paths[d][k].id # poi.id)

\* [poi for poi in jurisdiction_pois if poi.id != starting_point.id]
AvailablePois(jurisdiction_pois, sp) ==
  SelectSeq(jurisdiction_pois, LAMBDA poi : poi.id # sp.id)

\* faulty variant: an unstable descending sort, POIs of equal fee come out
\* in the reverse of their input order (what sorted(...)[::-1] does)
RankTiesReversed(s, i) ==
  1 + Cardinality({j \in 1..Len(s) :
                     \/ s[j].fee_value > s[i].fee_value
                     \/ s[j].fee_value = s[i].fee_value /\ j > i})

\* where the i-th element of s stands after the sort: behind every element
\* of greater fee, and behind the elements of equal fee that precede it in s
Rank(s, i) ==
  1 + Cardinality({j \in 1..Len(s) :
                     \/ s[j].fee_value > s[i].fee_value
                     \/ s[j].fee_value = s[i].fee_value /\ j < i})

\* list.sort(key=lambda poi: poi.fee_value, reverse=True): descending and
\* stable (reverse=True keeps the original order of equal keys)
SortByFee(s) ==
  [k \in 1..Len(s) |-> s[CHOOSE i \in 1..Len(s) : Rank(s, i) = k]]

\* faulty variant: the index's own list is sorted in place before it is
\* filtered
SortedInPlace(h, jref, sp) ==
  [heap |-> [h EXCEPT ![jref] = SortByFee(h[jref]),
                      ![AvailableRef] = AvailablePois(SortByFee(h[jref]), sp)],
   ref |-> AvailableRef]

\* lines 23 and 26: the comprehension allocates a new list, which is then
\* sorted in place; the list jref refers to is only read
SortedCandidates(h, jref, sp) ==
  [heap |-> [h EXCEPT ![AvailableRef] = SortByFee(AvailablePois(h[jref], sp))],
   ref |-> AvailableRef]

\* faulty variant: the length of the accepted list is tested, not that of
\* test_route
WithinCapOfSelected(test_route) == Len(test_route) - 1 <= MaxStops

\* faulty variant: the length test is strict
WithinCapStrict(test_route) == Len(test_route) < MaxStops

\* len(test_route) <= 8
WithinCap(test_route) == Len(test_route) <= MaxStops

\* faulty variant: the validator is called before the length test
SubmitsAlways(test_route) == TRUE

\* `A and B` evaluates B only when A holds: is_valid_route is called only
\* for a test_route within the cap
Submits(test_route) == WithinCap(test_route)

\* faulty variant: selected_pois.insert(0, poi)
CommitFront(selected, poi) == <<poi>> \o selected

\* selected_pois.append(poi)
Commit(selected, poi) == Append(selected, poi)

\* the argument pair of a call of is_valid_route
Query(sp, route) == <<sp, route>>

\* b is an answer is_valid_route may give to query q: free the first time,
\* the same ever after
Answers(q, b) == /\ q \in valid_routes => b
                 /\ q \in invalid_routes => ~b

\* ------------------------------------------------------------ flattening

Digits == <<"0", "1", "2", "3", "4", "5", "6", "7", "8", "9">>

\* str(n) for n >= 0
RECURSIVE Str(_)
Str(n) == IF n < 10 THEN <<Digits[n + 1]>>
          ELSE Str(n \div 10) \o <<Digits[(n % 10) + 1]>>

\* faulty variant: the day index is left out of route_id
RouteIdNoIndex(poi, route_idx) == <<"R", "_">> \o poi.jurisdiction

\* f"R_{poi.jurisdiction}_{route_idx}"
RouteId(poi, route_idx) ==
  <<"R", "_">> \o poi.jurisdiction \o <<"_">> \o Str(route_idx)

\* the rows of one route: for poi_idx, poi in enumerate(poi_list)
RowsOf(poi_list, route_idx) ==
  [j \in 1..Len(poi_list) |->
     [route_id |-> RouteId(poi_list[j], route_idx),
      jurisdiction_id |-> j - 1,
      poi_id |-> poi_list[j].id]]

\* for route_idx, poi_list in enumerate(paths): the rows of the first n routes
RECURSIVE FlatData(_, _)
FlatData(ps, n) ==
  IF n = 0 THEN <<>>
  ELSE FlatData(ps, n - 1) \o RowsOf(ps[n], n - 1)

\* ------------------------------------------------------------ datasets

\* fee of the i-th POI under fee pattern p: ties and unsorted orders occur
FeeOf(i, p) == (i * p) % MaxFee

\* n POIs with ids 1..n; the first `split` are in J5, the others in J6
Dataset(n, split, p) ==
  [i \in 1..n |-> POI(i, FeeOf(i, p), IF i <= split THEN J5 ELSE J6)]

\* StartingPoint: POI-shaped, fee 0; synthetic ids, and one whose id
\* coincides with the id of the dataset's last POI
StartingPoints(ds) ==
  {POI(SyntheticIdBase, 0, J5), POI(SyntheticIdBase + 1, 0, J9)}
    \cup (IF ds = <<>> THEN {} ELSE {POI(Len(ds), 0, ds[Len(ds)].jurisdiction)})

\* all lists of at most n elements of S
SeqsUpTo(S, n) == UNION {[1..m -> S] : m \in 0..n}

\* the state after `t = Traveler(...)`, with starting_points loaded and
\* `paths = []` executed
Loaded(ds, sps) ==
  /\ dataset = ds
  /\ lists = BuildIndex(ds)
  /\ starting_points = sps
  /\ pc = "for_ele"
  /\ ele_idx = 1
  /\ paths = <<>>
  /\ starting_point = POI(0, 0, <<>>)
  /\ available_pois = DefaultRef
  /\ poi_idx = 1
  /\ selected_pois = <<>>
  /\ valid_routes = {}
  /\ invalid_routes = {}
  /\ submitted = <<>>
  /\ turns = <<>>
  /\ uncapped_pois = <<>>
  /\ flat_data = <<>>
  /\ phase = "multi"
  /\ multi_paths = <<>>
  /\ alone_day = 0

\* small datasets, several days
InitSmall ==
  \E n \in 0..MaxPois : \E split \in 0..n : \E p \in 0..MaxFee :
    \E sps \in SeqsUpTo(StartingPoints(Dataset(n, split, p)), MaxDays) :
      Loaded(Dataset(n, split, p), sps)

\* one jurisdiction with more POIs than the cap, one day
InitLarge ==
  \E p \in 0..MaxFee :
    LET ds == Dataset(MaxStops + Overflow, MaxStops + Overflow, p)
    IN  \E sp \in {POI(SyntheticIdBase, 0, J5), POI(Len(ds), 0, J5)} :
          Loaded(ds, <<sp>>)

Init == InitSmall \/ InitLarge

\* ------------------------------------------------------------ actions

\* lines 116-117 and 22-29: the driver calls _high_value_strategy(ele); the
\* call looks the jurisdiction up, filters, sorts, and starts its loop
CallStrategy ==
  /\ pc = "for_ele"
  /\ ele_idx <= Len(starting_points)
  /\ LET ele == starting_points[ele_idx]
         jurisdiction_pois == JurisdictionsGet(lists, ele.jurisdiction)
     IN  IF jurisdiction_pois = KeyError
         THEN /\ pc' = "raised"
              /\ UNCHANGED <<lists, starting_point, available_pois, poi_idx,
                             selected_pois, turns, uncapped_pois>>
         ELSE LET sorted == SortedCandidates(lists, jurisdiction_pois, ele)
              IN  /\ pc' = "for_poi"
                  /\ lists' = sorted.heap
                  /\ available_pois' = sorted.ref
                  /\ starting_point' = ele
                  /\ poi_idx' = 1
                  /\ selected_pois' = <<>>
                  /\ turns' = <<>>
                  /\ uncapped_pois' = <<>>
  /\ submitted' = <<>>
  /\ UNCHANGED <<dataset, starting_points, ele_idx, paths, valid_routes,
                 invalid_routes, flat_data, phase, multi_paths, alone_day>>

\* lines 30-34: one iteration of `for poi in available_pois`; uncapped_pois
\* follows the same iteration with the length test left out
EvaluateCandidate ==
  /\ pc = "for_poi"
  /\ poi_idx <= Len(lists[available_pois])
  /\ LET poi == lists[available_pois][poi_idx]
         test_route == Commit(selected_pois, poi)
         free_route == Commit(uncapped_pois, poi)
         q == Query(starting_point, test_route)
         qf == Query(starting_point, free_route)
         asked == Submits(test_route)
     IN  \E b \in BOOLEAN : \E bf \in BOOLEAN :
           /\ asked => Answers(q, b)
           /\ ~asked => ~b
           /\ Answers(qf, bf)
           /\ (asked /\ q = qf) => (b = bf)
           /\ selected_pois' = IF WithinCap(test_route) /\ b
                               THEN test_route ELSE selected_pois
           /\ uncapped_pois' = IF bf THEN free_route ELSE uncapped_pois
           /\ valid_routes' = valid_routes
                                \cup (IF asked /\ b THEN {q} ELSE {})
                                \cup (IF bf THEN {qf} ELSE {})
           /\ invalid_routes' = invalid_routes
                                  \cup (IF asked /\ ~b THEN {q} ELSE {})
                                  \cup (IF ~bf THEN {qf} ELSE {})
           /\ submitted' = IF asked THEN test_route ELSE <<>>
           /\ turns' = Append(turns,
                              [poi |-> poi, before |-> selected_pois,
                               verdict |-> IF ~asked THEN "not_submitted"
                                           ELSE IF b THEN "valid" ELSE "invalid"])
  /\ poi_idx' = poi_idx + 1
  /\ UNCHANGED <<dataset, lists, starting_points, pc, ele_idx, paths,
                 starting_point, available_pois, flat_data, phase, multi_paths,
                 alone_day>>

\* lines 36 and 117: the loop is over, the call returns selected_pois and the
\* driver appends it to paths; the call's list is released
ReturnRoute ==
  /\ pc = "for_poi"
  /\ poi_idx > Len(lists[available_pois])
  /\ paths' = Append(paths, selected_pois)
  /\ ele_idx' = ele_idx + 1
  /\ lists' = [lists EXCEPT ![AvailableRef] = <<>>]
  /\ pc' = "for_ele"
  /\ submitted' = <<>>
  /\ UNCHANGED <<dataset, starting_points, starting_point, available_pois,
                 poi_idx, selected_pois, valid_routes, invalid_routes, turns,
                 uncapped_pois, flat_data, phase, multi_paths, alone_day>>

\* lines 168-177: the driver loop is over; every route is flattened to rows
Flatten ==
  /\ pc = "for_ele"
  /\ ele_idx > Len(starting_points)
  /\ flat_data' = FlatData(paths, Len(paths))
  /\ pc' = "done"
  /\ UNCHANGED <<dataset, lists, starting_points, ele_idx, paths,
                 starting_point, available_pois, poi_idx, selected_pois,
                 valid_routes, invalid_routes, submitted, turns, uncapped_pois,
                 phase, multi_paths, alone_day>>

\* the notebook is run again with day k's starting point alone: the
\* Traveler is constructed anew (line 45), paths = [] (line 115); the
\* validator is the same predicate
RunAlone(k) ==
  /\ pc = "done"
  /\ phase = "multi"
  /\ k \in 1..Len(starting_points)
  /\ phase' = "alone"
  /\ alone_day' = k
  /\ multi_paths' = paths
  /\ lists' = BuildIndex(dataset)
  /\ starting_points' = <<starting_points[k]>>
  /\ paths' = <<>>
  /\ flat_data' = <<>>
  /\ ele_idx' = 1
  /\ pc' = "for_ele"
  /\ submitted' = <<>>
  /\ UNCHANGED <<dataset, starting_point, available_pois, poi_idx,
                 selected_pois, valid_routes, invalid_routes, turns,
                 uncapped_pois>>

Next ==
  \/ CallStrategy
  \/ EvaluateCandidate
  \/ ReturnRoute
  \/ Flatten
  \/ \E k \in 1..MaxDays : RunAlone(k)

Spec == Init /\ [][Next]_vars

\* the interpreter runs the call's loop without suspending: an iteration
\* that can be taken is taken
FairSpec == Spec /\ WF_vars(EvaluateCandidate)

\* ------------------------------------------------------------ notions the claims use

\* the list the running call iterates
Candidates == lists[available_pois]

\* every route built so far, each with the starting point it was built for
\* (the accepted list of the running call included)
Built ==
  {[sp |-> starting_points[d], route |-> paths[d]] : d \in 1..Len(paths)}
    \cup (IF pc = "for_poi"
          THEN {[sp |-> starting_point, route |-> selected_pois]} ELSE {})

IsPrefix(s, t) == Len(s) <= Len(t) /\ s = SubSeq(t, 1, Len(s))

NoDuplicateIds(route) ==
  \A i \in 1..Len(route) : \A j \in 1..Len(route) :
    route[i].id = route[j].id => i = j

\* position of the POI with this id in the dataset
Position(id) == CHOOSE k \in 1..Len(dataset) : dataset[k].id = id

\* the POIs the dataset offers to a starting point
Offered(sp) ==
  {dataset[k] : k \in {i \in 1..Len(dataset) :
                         /\ dataset[i].jurisdiction = sp.jurisdiction
                         /\ dataset[i].id # sp.id}}

\* C1: every accepted list, after every candidate evaluated and as returned,
\* has at most 8 POIs and no POI id twice
C1_AtMostEightNoDuplicates ==
  \A b \in Built : Len(b.route) <= MaxStops /\ NoDuplicateIds(b.route)

\* the cap was reached and a further candidate was evaluated
C1_Witness ==
  /\ pc = "for_poi"
  /\ Len(selected_pois) = MaxStops
  /\ Len(turns) > MaxStops

\* C2: every POI proposed to the validator or accepted into a route has the
\* jurisdiction of the starting point the route is built for
C2_SameJurisdiction ==
  /\ \A b \in Built :
       \A k \in 1..Len(b.route) : b.route[k].jurisdiction = b.sp.jurisdiction
  /\ pc = "for_poi" =>
       /\ \A k \in 1..Len(Candidates) :
            Candidates[k].jurisdiction = starting_point.jurisdiction
       /\ \A k \in 1..Len(turns) :
            turns[k].poi.jurisdiction = starting_point.jurisdiction

\* a route was built from a dataset that also holds POIs of another jurisdiction
C2_Witness ==
  /\ pc = "done"
  /\ \E d \in 1..Len(paths) :
       /\ paths[d] # <<>>
       /\ \E k \in 1..Len(dataset) :
            dataset[k].jurisdiction # starting_points[d].jurisdiction

\* C3: in every route, fees descend, POIs of equal fee keep their dataset
\* order, and every POI is one the dataset offers to the starting point
C3_DescendingStable ==
  \A b \in Built :
    /\ \A k \in 1..Len(b.route) : b.route[k] \in Offered(b.sp)
    /\ \A i \in 1..Len(b.route) : \A j \in 1..Len(b.route) :
         i < j =>
           /\ b.route[i].fee_value >= b.route[j].fee_value
           /\ b.route[i].fee_value = b.route[j].fee_value =>
                Position(b.route[i].id) < Position(b.route[j].id)

\* a returned route holds two POIs of equal fee, and a POI placed before one
\* that precedes it in the dataset
C3_Witness ==
  /\ pc = "done"
  /\ \E d \in 1..Len(paths) :
       /\ \E i \in 1..Len(paths[d]) : \E j \in 1..Len(paths[d]) :
            i < j /\ paths[d][i].fee_value = paths[d][j].fee_value
       /\ \E i \in 1..Len(paths[d]) : \E j \in 1..Len(paths[d]) :
            i < j /\ Position(paths[d][i].id) > Position(paths[d][j].id)

\* C4: no call raises; a starting point whose jurisdiction the index lacks,
\* or that is offered no POI, gets the empty route; and the run builds a
\* route for every starting point
C4_EmptyRouteNoError ==
  /\ pc # "raised"
  /\ \A d \in 1..Len(paths) :
       Offered(starting_points[d]) = {} => paths[d] = <<>>
  /\ pc = "done" => Len(paths) = Len(starting_points)

\* day 1's jurisdiction is not in the index, day 2's starting point is
\* offered nothing, and the run went on to its end
C4_Witness ==
  /\ pc = "done"
  /\ phase = "multi"
  /\ Len(paths) = 2
  /\ starting_points[1].jurisdiction \notin IndexTags(lists)
  /\ starting_points[2].jurisdiction \in IndexTags(lists)
  /\ Offered(starting_points[2]) = {}
  /\ paths = <<(<<>>), (<<>>)>>

\* C5: the list accepted under the cap of 8 is a prefix of the list accepted
\* by the same pass without the cap, at every step of the call
C5_CapMonotone ==
  pc = "for_poi" => IsPrefix(selected_pois, uncapped_pois)

\* without the cap the route grows past 8 stops
C5_Witness ==
  /\ pc = "for_poi"
  /\ Len(selected_pois) = MaxStops
  /\ Len(uncapped_pois) > MaxStops

RECURSIVE RouteIds(_)
RouteIds(rows) ==
  IF rows = <<>> THEN <<>>
  ELSE LET front == RouteIds(SubSeq(rows, 1, Len(rows) - 1))
           id == rows[Len(rows)].route_id
       IN  IF \E k \in 1..Len(front) : front[k] = id THEN front
           ELSE Append(front, id)

\* rows ordered by stop index (jurisdiction_id), ascending and stable
RECURSIVE ByStopIndex(_)
ByStopIndex(rows) ==
  IF rows = <<>> THEN <<>>
  ELSE LET front == ByStopIndex(SubSeq(rows, 1, Len(rows) - 1))
           row == rows[Len(rows)]
           k == Cardinality({i \in 1..Len(front) :
                               front[i].jurisdiction_id <= row.jurisdiction_id})
       IN  SubSeq(front, 1, k) \o <<row>> \o SubSeq(front, k + 1, Len(front))

\* the rows re-grouped by route_id: per group, the poi_ids by stop index
Regrouped(rows) ==
  LET ids == RouteIds(rows)
  IN  [g \in 1..Len(ids) |->
         LET group == ByStopIndex(SelectSeq(rows, LAMBDA r : r.route_id = ids[g]))
         IN  [k \in 1..Len(group) |-> group[k].poi_id]]

\* the per-day routes as lists of POI ids
RouteIdLists == [d \in 1..Len(paths) |-> Ids(paths[d])]

\* C7 as stated: re-grouping the rows gives back every day's route, the
\* empty ones included, one per day
C7_RoundTripEveryDay ==
  pc = "done" => Regrouped(flat_data) = RouteIdLists

\* C7 as amended: re-grouping the rows gives back, in day order, the routes
\* of the days whose route is not empty, and nothing else: an empty route
\* leaves no row
C7_RoundTripNonEmptyDays ==
  pc = "done" =>
    Regrouped(flat_data) = SelectSeq(RouteIdLists, LAMBDA r : r # <<>>)

\* the routes of a run with an empty day and a day of several stops were
\* flattened
C7_Witness ==
  /\ pc = "done"
  /\ phase = "multi"
  /\ \E d \in 1..Len(paths) : paths[d] = <<>>
  /\ \E d \in 1..Len(paths) : Len(paths[d]) >= 2
  /\ Len(flat_data) >= 2

\* the running call has no candidate left, or has accepted 8 POIs
BuilderDone ==
  /\ pc = "for_poi"
  /\ \/ poi_idx > Len(Candidates)
     \/ Len(selected_pois) >= MaxStops

\* C8: from DONE on, no step changes the accepted list or hands a route to
\* the validator; and every call that is running reaches DONE
C8_DoneAbsorbing ==
  /\ [][BuilderDone => /\ selected_pois' = selected_pois
                       /\ submitted' = <<>>]_vars
  /\ (pc = "for_poi") ~> BuilderDone

\* 8 POIs were accepted and the candidates after them were passed over
\* without a call of the validator
C8_Witness ==
  /\ BuilderDone
  /\ poi_idx > Len(Candidates)
  /\ Len(selected_pois) = MaxStops
  /\ Len(turns) > MaxStops
  /\ turns[Len(turns)].verdict = "not_submitted"

\* C9: the candidates are evaluated once each in sorted order; with fewer
\* than 8 accepted a candidate is submitted, and it is accepted exactly when
\* the validator accepts the accepted list plus it; the accepted list only
\* grows at its end; and at most 8 candidates that the validator never
\* rejects are all in the route, in sorted order
C9_SingleGreedyPass ==
  pc = "for_poi" =>
    /\ Len(turns) = poi_idx - 1
    /\ \A k \in 1..Len(turns) :
         /\ turns[k].poi = Candidates[k]
         /\ IsPrefix(turns[k].before, selected_pois)
         /\ Len(turns[k].before) < MaxStops => turns[k].verdict # "not_submitted"
         /\ (\E i \in 1..Len(selected_pois) : selected_pois[i] = turns[k].poi)
              <=> (Len(turns[k].before) < MaxStops /\ turns[k].verdict = "valid")
         /\ turns[k].verdict = "valid" =>
              Query(starting_point, Append(turns[k].before, turns[k].poi))
                \in valid_routes
         /\ turns[k].verdict = "invalid" =>
              Query(starting_point, Append(turns[k].before, turns[k].poi))
                \in invalid_routes
    /\ NoDuplicateIds(Candidates)
    /\ \A i \in 1..Len(Candidates) : \A j \in 1..Len(Candidates) :
         i < j => Candidates[i].fee_value >= Candidates[j].fee_value
    /\ (/\ poi_idx > Len(Candidates)
        /\ Len(Candidates) <= MaxStops
        /\ \A k \in 1..Len(turns) : turns[k].verdict # "invalid")
         => selected_pois = Candidates

\* a pass is over in which a candidate was rejected, later ones were
\* accepted, and the 8th POI was accepted with 7 in the list
C9_Witness ==
  /\ pc = "for_poi"
  /\ poi_idx > Len(Candidates)
  /\ Len(selected_pois) = MaxStops
  /\ \E k \in 1..Len(turns) : \E m \in 1..Len(turns) :
       k < m /\ turns[k].verdict = "invalid" /\ turns[m].verdict = "valid"

\* C10: the index holds, for every jurisdiction, the list it was built with
C10_IndexUnchanged ==
  /\ IndexTags(lists) = IndexTags(BuildIndex(dataset))
  /\ \A tag \in IndexTags(lists) : lists[tag] = BuildIndex(dataset)[tag]

\* a call has filtered and sorted the candidates of a jurisdiction whose
\* list in the index is not in descending fee order
C10_Witness ==
  /\ pc = "for_poi"
  /\ starting_point.jurisdiction \in IndexTags(lists)
  /\ Candidates # AvailablePois(lists[starting_point.jurisdiction], starting_point)
  /\ Len(turns) >= 1

====
